---- MODULE Spec2Model ----
(***************************************************************************)
(* Model of src/index.tsx (the "portal" single-page interface).            *)
(*                                                                         *)
(* Numbers.  JavaScript numbers are modelled in fixed point: a real value  *)
(* v is the integer v * FP (FP = 10^4), and the result of every operation  *)
(* is rounded down to a multiple of 1/FP, as a double rounds the result of *)
(* every operation to 53 bits; every value is within a few 10^-4 of the    *)
(* value the program computes.  Math.cos and Math.sin are computed by      *)
(* range reduction and a Taylor polynomial.  The one exception is          *)
(* useCorruption's state, whose bounds are exact: it is an IEEE-754 double, *)
(* held as the integer number of units of 2^-60 in two limbs, and added    *)
(* with round-to-nearest-even as the program adds it.                      *)
(*                                                                         *)
(* Strings.  An id is a sequence of tokens: 'dragon-dup2' is               *)
(* <<"dragon", "-dup", "2">>, 'locked-1' is <<"locked", "-", "1">>.        *)
(***************************************************************************)
EXTENDS Integers, Sequences, FiniteSets, TLC

(***************************************************************************)
(* Bounds of the model.                                                    *)
(***************************************************************************)
\* longest input sequence drawn freely from `realities` for the helix layout
MaxItems == 3
\* evaluations of the helix layout in one behaviour (mount, re-mounts)
MaxHelixCalls == 2
\* scroll positions fed to handleScroll: 0, ScrollStep, ..., MaxScrollSteps * ScrollStep
MaxScrollSteps == 3
ScrollStep == 100
\* the seeded random source has RandMod states and RandMod equidistant values
RandMod == 13
\* seeds that can be injected: 0..MaxSeed
MaxSeed == 1
\* the wall clock advances by ClockStep ms at most MaxTicks times
MaxTicks == 1
ClockStep == 250
\* renders of the two particle emitters, taken together, in one behaviour
MaxRenders == 2
\* time passes in steps of TimeStep ms while timeouts are pending
TimeStep == 250
\* timeouts pending at the same time
MaxTimers == 4
\* intervals created by startExit in one behaviour
MaxIntervals == 2
\* HUD, card and vault clicks the user makes while the intro is followed tick by tick
MaxIntroInputs == 1
\* HUD, card and vault clicks the user makes on a page opened with a deep link
MaxLinkInputs == 2
\* oscillators created by toggleVoidHum in one behaviour
MaxOscillators == 2
\* stop timeouts of toggleVoidHum pending at a time
MaxHumStops == 2

(***************************************************************************)
(* State.                                                                  *)
(***************************************************************************)
VARIABLES
    helixItems,     \* the item sequence the helix layout is applied to
    vaultMounted,   \* VaultDimension is mounted
    vaultItems,     \* the most recently computed layout (<<>> before the first evaluation;
                    \* kept after an unmount so that two evaluations can be compared)
    helixCalls,     \* number of evaluations of the layout so far
    headerOpacity   \* VaultDimension's headerOpacity state

VARIABLES
    rngState,        \* state of the random source behind Math.random()
    clock,           \* Date.now(), in ms since the page was loaded
    emitterCount,    \* the particle count the emitters are asked for
    takingOver,      \* the last render of TakingOverParticles: its props, seed, clock and output
    takingOverMounted, \* TakingOverParticles is mounted (its owner shows it)
    corruption,      \* useCorruption's state, the prop PortalScreen passes to TakingOverParticles
    prevTakingOver,  \* the render of TakingOverParticles before the last one
    particleCalls,   \* number of renders of TakingOverParticles so far
    hoverElements,   \* the output of the last render of PortalHoverParticles
    hoverRealityId,  \* the realityId prop of that render (<<>> before the first render)
    rootStyle,       \* custom properties set on document.documentElement.style
    hoverCalls       \* number of renders of PortalHoverParticles so far

VARIABLES
    activeDimension,   \* PortalScreen: index of the shown dimension (0 gateway, 1 scanner, 2 vault)
    selectedRealityId, \* PortalScreen: id of the selected reality
    isTransitioning,   \* PortalScreen: a mode switch is in progress
    warpPhase,         \* PortalScreen: "idle", "accelerating" or "warped"
    isScanning,        \* PortalScreen: a capture is in progress
    clickedIndex,      \* OrbitalHud: index of the button just clicked, NoIndex for null
    timers,            \* the pending timeouts, in the order of their setTimeout calls
    exitProgress,      \* ImmersivePlayer: progress of the exit ritual, 0..100
    pressTimer,        \* ImmersivePlayer: pressTimer.current, an interval id, 0 for null
    intervals,         \* interval id |-> its status: "free" (not set, or cleared), "running", or
                       \* "orphan" (running, its player unmounted with exitProgress = prev)
    envCalls,          \* the intensities passed to modulateEnvironment by the last handler that called it
    lastSwitch,        \* index of the last mode switch that was scheduled, NoIndex if none
    lastEvent          \* the handler that ran in the last step and the callbacks it invoked

VARIABLES
    introComplete,     \* PortalScreen: the intro has completed (or a deep link has skipped it)
    isProcessingFile,  \* PortalScreen: the "parsing data" overlay is shown
    hash,              \* window.location.hash, split at '?': a sequence of token sequences
    linkTimers,        \* times (ms) until the pending timeouts of the deep-link effect are due
    step,              \* CinematicIntro: its step state, 0..4
    introTimers,       \* the four timeouts of CinematicIntro's effect: [set, left]
    onCompleteCalls,   \* number of calls of CinematicIntro's onComplete so far
    inputs             \* clicks the user may still make, NoLimit when they are not counted

VARIABLES
    humOscillator,     \* useNervousSystem: humOscillatorRef.current, an oscillator id, 0 for null
    oscillators,       \* oscillator id |-> "none" (not created), "playing" or "stopped"
    humStops           \* the pending stop timeouts: [left, tracked], tracked the oscillator
                       \* humOscillatorRef held when toggleVoidHum(false) set the timeout

(***************************************************************************)
(* Fixed-point arithmetic and trigonometry.                                *)
(***************************************************************************)
FP == 10 * 10 * 10 * 10

\* Math.PI in units of 1/FP
Pi == 31416
TwoPi == 2 * Pi
HalfPi == Pi \div 2

\* Math.max(a, b)
Max(a, b) == IF a >= b THEN a ELSE b

\* cos on [0, pi/2]: 1 - y^2/2! + y^4/4! - y^6/6! + y^8/8! - y^10/10!
CosQ(y) ==
    LET y2 == (y * y) \div FP
        t1 == y2 \div 2
        t2 == (t1 * y2) \div (12 * FP)
        t3 == (t2 * y2) \div (30 * FP)
        t4 == (t3 * y2) \div (56 * FP)
        t5 == (t4 * y2) \div (90 * FP)
    IN  FP - t1 + t2 - t3 + t4 - t5

\* Math.cos(x), x and the result in units of 1/FP
Cos(x) ==
    LET r == x % TwoPi
        y == IF r > Pi THEN TwoPi - r ELSE r
    IN  IF y > HalfPi THEN 0 - CosQ(Pi - y) ELSE CosQ(y)

\* Math.sin(x) = cos(x - pi/2)
Sin(x) == Cos(x - HalfPi)

\* Math.floor(v) of a fixed-point value, as an integer
Floor(v) == v \div FP

\* a * b of two fixed-point values (b >= 0), computed without 32-bit overflow
Mul(a, b) == a * (b \div FP) + (a * (b % FP)) \div FP

(***************************************************************************)
(* Doubles in [0, 2).  The double d is the record [hi, lo] with            *)
(* d = (hi * 2^30 + lo) * 2^-60: every double reached by adding 0.005      *)
(* repeatedly from 0 is a multiple of 2^-60.  A double has 53 significant  *)
(* bits, so a sum is rounded to a multiple of its unit in the last place,  *)
(* to the nearest one, ties to the even one.                               *)
(***************************************************************************)
Limb == 2^30

\* below this high limb a value has at most 53 significant bits
MantissaTop == 2^23

Double(hi, lo) == [hi |-> hi, lo |-> lo]

Zero == Double(0, 0)
One == Double(Limb, 0)

\* the unit in the last place, in units of 2^-60, of a value with high limb hi
RECURSIVE Ulp(_)
Ulp(hi) == IF hi < MantissaTop THEN 1 ELSE 2 * Ulp(hi \div 2)

\* the double nearest to the exact value hi * 2^30 + lo (ties to even)
RoundToDouble(hi, lo) ==
    LET u  == Ulp(hi)
        r  == lo % u
        up == 2 * r > u \/ (2 * r = u /\ (lo \div u) % 2 = 1)
        rounded == lo - r + (IF up THEN u ELSE 0)
    IN  Double(hi + rounded \div Limb, rounded % Limb)

\* a + b of two doubles
DoubleAdd(a, b) ==
    LET lo == a.lo + b.lo
    IN  RoundToDouble(a.hi + b.hi + lo \div Limb, lo % Limb)

\* a >= b, a > b
DoubleGeq(a, b) == a.hi > b.hi \/ (a.hi = b.hi /\ a.lo >= b.lo)
DoubleGt(a, b) == a.hi > b.hi \/ (a.hi = b.hi /\ a.lo > b.lo)

(***************************************************************************)
(* Data: realities and the vault's base items.                             *)
(***************************************************************************)
Item(id, title, subtitle, themeColor, particleColor, particleShape, atmosphereType) ==
    [id |-> id, title |-> title, subtitle |-> subtitle, themeColor |-> themeColor,
     particleColor |-> particleColor, particleShape |-> particleShape,
     atmosphereType |-> atmosphereType]

realities ==
    << Item(<<"dragon">>, "Dragon's Den", "Ancient Era", "#FF4E00", "#FFD700", "diamond", "smoke"),
       Item(<<"cosmic">>, "Cosmic Voyage", "Future Echo", "#0070F3", "#50E3C2", "star", "stars"),
       Item(<<"neon">>, "Cyber City", "Digital Dream", "#BD00FF", "#FF00FF", "square", "glitch"),
       Item(<<"forest">>, "Spirit Woods", "Nature's Whisper", "#4ADE80", "#10B981", "circle", "light_shafts") >>

\* { ...r, id: `${r.id}${suffix}` }
WithId(r, id) == [r EXCEPT !.id = id]

\* { ...r, id: 'locked-n', title: 'Locked Memory', subtitle: 'Encrypted' }
Locked(r, n) ==
    [r EXCEPT !.id = <<"locked", "-", n>>, !.title = "Locked Memory", !.subtitle = "Encrypted"]

Dup(suffix) == [k \in 1..Len(realities) |-> WithId(realities[k], realities[k].id \o suffix)]

baseItems ==
    realities
    \o Dup(<<"-dup">>)
    \o Dup(<<"-dup", "2">>)
    \o Dup(<<"-dup", "3">>)
    \o << Locked(realities[1], "1"), Locked(realities[2], "2"), Locked(realities[3], "3") >>

(***************************************************************************)
(* The helix layout (VaultDimension.vaultItems).                           *)
(***************************************************************************)
verticalSpacing == 110
amplitude == 90
frequency == (4 * FP) \div 10
baseTop == 150
baseLeft == 50

\* const strand = i % 2 === 0 ? 'A' : 'B'
Strand(i) == IF i % 2 = 0 THEN "A" ELSE "B"

\* mutant: the phase shift of strand B is forgotten
PhaseOffsetNone(strand) == 0

\* const phaseOffset = strand === 'A' ? 0 : Math.PI
PhaseOffset(strand) == IF strand = "A" THEN 0 ELSE Pi

\* const angle = (i * frequency) + phaseOffset
HelixAngle(i) == (i * frequency) + PhaseOffset(Strand(i))

\* const depth = Math.cos(angle)
HelixDepth(i) == Cos(HelixAngle(i))

\* mutant: the scale uses the opacity's span 0.6 instead of 0.5
ZScaleWide(depth) == (6 * FP) \div 10 + (((depth + FP) \div 2) * 6) \div 10

\* const zScale = 0.6 + ((depth + 1) / 2) * 0.5
ZScale(depth) == (6 * FP) \div 10 + (((depth + FP) \div 2) * 5) \div 10

\* mutant: the opacity fades towards the front instead of towards the back
OpacityInverted(depth) == (4 * FP) \div 10 + (((FP - depth) \div 2) * 6) \div 10

\* const opacity = 0.4 + ((depth + 1) / 2) * 0.6
Opacity(depth) == (4 * FP) \div 10 + (((depth + FP) \div 2) * 6) \div 10

\* mutant: Math.round instead of Math.floor
ZIndexRounded(zScale) == Floor(zScale * 100 + FP \div 2)

\* const zIndex = Math.floor(zScale * 100)
ZIndex(zScale) == Floor(zScale * 100)

\* mutant: the two strands share a row (the row advances every second item)
VerticalPositionPerPair(i) == baseTop + (i \div 2) * verticalSpacing

\* top: 150 + i * verticalSpacing
VerticalPosition(i) == baseTop + i * verticalSpacing

\* { ...item, ...extra }
Spread(item, extra) ==
    [f \in (DOMAIN item) \cup (DOMAIN extra) |->
        IF f \in DOMAIN extra THEN extra[f] ELSE item[f]]

\* the callback of baseItems.map((item, i) => ...), i zero-based
HelixPlacement(item, i) ==
    LET strand == Strand(i)
        angle  == HelixAngle(i)
        xOffset == Sin(angle) * amplitude
        depth  == Cos(angle)
        zScale == ZScale(depth)
    IN  Spread(item,
               [left     |-> baseLeft * FP + xOffset,
                top      |-> VerticalPosition(i),
                scale    |-> zScale,
                zIndex   |-> ZIndex(zScale),
                opacity  |-> Opacity(depth),
                rotation |-> Sin(angle) * 10,
                delay    |-> (i * 5 * FP) \div 100,
                strand   |-> strand])

\* mutant: the loop stops one item early
layoutHelixDropLast(items) == [k \in 1..(Len(items) - 1) |-> HelixPlacement(items[k], k - 1)]

\* mutant: the layout reads a counter that changes from one evaluation to the next
layoutHelixImpure(items) ==
    [k \in 1..Len(items) |->
        [HelixPlacement(items[k], k - 1) EXCEPT !.delay = @ + helixCalls]]

\* items.map(callback): one placement per item, in order
layoutHelix(items) == [k \in 1..Len(items) |-> HelixPlacement(items[k], k - 1)]

\* const newOpacity = Math.max(0, 1 - scrollTop / 200)
HeaderOpacity(scrollTop) == Max(0, FP - (scrollTop * FP) \div 200)

(***************************************************************************)
(* The random source.  Math.random() is modelled as a seeded counter-based *)
(* generator: in state s it returns a scrambled s / RandMod in [0, 1) and  *)
(* moves to state (s + 1) % RandMod.                                       *)
(***************************************************************************)
\* the value Math.random() returns in state s, in units of 1/FP
RandValue(s) == (((5 * s + 3) % RandMod) * FP) \div RandMod

\* the state of the source after n calls from state s
RandAfter(s, n) == (s + n) % RandMod

\* the values of calls first .. first + n - 1 (counted from 1) of the source seeded with seed
Draws(seed, first, n) == [j \in 1..n |-> RandValue(RandAfter(seed, first + j - 2))]

(***************************************************************************)
(* The take-over particle emitter (TakingOverParticles).                   *)
(* The duration multiplier is in tenths; everything else is in 1/FP.       *)
(***************************************************************************)
particleCount == 40
hoverCount == 60

\* mutant: the multipliers of fast and slow are swapped
getDurationMultiplierSwapped(speed) ==
    IF speed = "fast" THEN 30
    ELSE IF speed = "slow" THEN 2
    ELSE 10

\* getDurationMultiplier(), in tenths
getDurationMultiplier(speed) ==
    IF speed = "fast" THEN 2
    ELSE IF speed = "slow" THEN 30
    ELSE 10

\* getShapeStyle(s)
getShapeStyle(s) ==
    CASE s = "square"  -> [borderRadius |-> "0"]
      [] s = "diamond" -> [borderRadius |-> "0", transform |-> "rotate(45deg)"]
      [] s = "star"    -> [clipPath |-> "polygon(10 points)", borderRadius |-> "0"]
      [] OTHER         -> [borderRadius |-> "50%"]

\* (2 + Math.random() * 3) * mult
ParticleDuration(r, mult) == ((2 * FP + 3 * r) * mult) \div 10

\* Math.sin(Date.now() / 1000 + i) * 20
WindX(now, i) == Sin((now * FP) \div 1000 + i * FP) * 20

TakingOverDraws == 6

\* the callback of particles.map((_, i) => ...): d holds the six draws of particle i
Particle(d, i, color, mult, shape, now) ==
    LET angle    == Mul(TwoPi, d[1])
        distance == 80 * FP + d[2] * 50
        duration == ParticleDuration(d[3], mult)
        delay    == d[4] * 2
        shapeStyle == getShapeStyle(shape)
        windX    == WindX(now, i)
    IN  [key   |-> i,
         style |-> Spread(shapeStyle,
                     [width  |-> 2 * FP + d[5] * 4,
                      height |-> 2 * FP + d[6] * 4,
                      backgroundColor |-> color,
                      boxShadow |-> <<"0 0 10px", color>>,
                      tx |-> Mul(Cos(angle), distance) + windX,
                      ty |-> Mul(Sin(angle), distance),
                      animation |-> [name |-> "float-out", duration |-> duration],
                      animationDelay |-> delay,
                      opacity |-> 0,
                      transform |-> "translate(0, 0)"])]

\* mutant: one element too many (Array.from({ length: count + 1 }))
generateParticlesOneMore(count, color, speed, shape, seed, now) ==
    [k \in 1..(count + 1) |->
        Particle(Draws(seed, TakingOverDraws * (k - 1) + 1, TakingOverDraws),
                 k - 1, color, getDurationMultiplier(speed), shape, now)]

\* mutant: the wind drift is added to the vertical end offset as well
generateParticlesWindOnBoth(count, color, speed, shape, seed, now) ==
    [k \in 1..count |->
        LET particle == Particle(Draws(seed, TakingOverDraws * (k - 1) + 1, TakingOverDraws),
                                 k - 1, color, getDurationMultiplier(speed), shape, now)
        IN  [particle EXCEPT !.style = [@ EXCEPT !.ty = @ + WindX(now, k - 1)]]]

\* Array.from({ length: count }).map(callback), drawing from the random source in state seed
generateParticles(count, color, speed, shape, seed, now) ==
    LET mult == getDurationMultiplier(speed)
    IN  [k \in 1..count |->
            Particle(Draws(seed, TakingOverDraws * (k - 1) + 1, TakingOverDraws),
                     k - 1, color, mult, shape, now)]

\* the props PortalScreen and ImmersivePlayer pass for a reality
TakingOverSpeed(reality) ==
    IF reality.id = <<"dragon">> THEN "fast"
    ELSE IF reality.id = <<"cosmic">> THEN "slow"
    ELSE "normal"

(***************************************************************************)
(* The hover particle emitter (PortalHoverParticles).                      *)
(***************************************************************************)
\* calls of Math.random() in one iteration of particles.map
HoverDraws(realityId) == IF realityId = <<"dragon">> THEN 6 ELSE 5

\* realityId === 'dragon' || realityId === 'cosmic'
IsLeak(realityId) == realityId = <<"dragon">> \/ realityId = <<"cosmic">>

\* mutant: a third identifier (neon) is given a dedicated profile
HoverSelectorThree(realityId) ==
    IF realityId = <<"dragon">> THEN "dragon"
    ELSE IF realityId = <<"cosmic">> \/ realityId = <<"neon">> THEN "cosmic"
    ELSE "default"

\* if (realityId === 'dragon') ... else if (realityId === 'cosmic') ... else ...
HoverSelector(realityId) ==
    IF realityId = <<"dragon">> THEN "dragon"
    ELSE IF realityId = <<"cosmic">> THEN "cosmic"
    ELSE "default"

\* the "Leaking Atmosphere Logic" of one iteration: the size, the animation and
\* the two custom properties the branch sets on document.documentElement.style
HoverBranch(d, i, realityId) ==
    IF HoverSelector(realityId) = "dragon" THEN
        [size |-> 2 * FP + d[1] * 3,
         animation |-> [name |-> "spark-rise", duration |-> 4 * FP + d[4] * 3],
         props  |-> [tx |-> <<"--leak-tx", i>>, ty |-> <<"--leak-ty", i>>],
         values |-> [tx |-> (d[2] - FP \div 2) * 40, ty |-> 0 - 60 * FP - d[3] * 80]]
    ELSE IF HoverSelector(realityId) = "cosmic" THEN
        [size |-> 1 * FP + d[1] * 2,
         animation |-> [name |-> "atmosphere-leak", duration |-> 8 * FP + d[4] * 4],
         props  |-> [tx |-> <<"--leak-tx", i>>, ty |-> <<"--leak-ty", i>>],
         values |-> [tx |-> (d[2] - FP \div 2) * 150, ty |-> (d[3] - FP \div 2) * 150]]
    ELSE
        LET angle == Mul(TwoPi, d[2])
            dist  == 50 * FP + d[3] * 100
        IN  [size |-> 2 * FP + d[1] * 4,
             animation |-> [name |-> "magical-flow", duration |-> 2 * FP + d[4] * 2],
             props  |-> [tx |-> <<"--magic-tx", i>>, ty |-> <<"--magic-ty", i>>],
             values |-> [tx |-> Mul(Cos(angle), dist), ty |-> Mul(Sin(angle), dist)]]

\* one iteration of particles.map((_, i) => ...): the element it returns and the
\* custom properties it has set; d holds the draws of the iteration
HoverParticle(d, i, realityId, color) ==
    LET branch == HoverBranch(d, i, realityId)
        size   == branch.size
    IN  [key    |-> i,
         props  |-> branch.props,
         values |-> branch.values,
         style  |->
            [width  |-> size,
             height |-> size,
             backgroundColor |->
                IF realityId = <<"dragon">>
                THEN (IF d[5] > (7 * FP) \div 10 THEN "#FFD700" ELSE color)
                ELSE color,
             boxShadow |-> <<"0 0", size * 3, color>>,
             tx |-> IF IsLeak(realityId) THEN <<"var", <<"--leak-tx", i>> >>
                    ELSE <<"var", <<"--magic-tx", i>> >>,
             ty |-> IF IsLeak(realityId) THEN <<"var", <<"--leak-ty", i>> >>
                    ELSE <<"var", <<"--magic-ty", i>> >>,
             animation |-> branch.animation,
             animationDelay |-> d[HoverDraws(realityId)],
             opacity |-> 0]]

\* Array.from({ length: count }).map(callback) of PortalHoverParticles
generateHoverParticles(count, realityId, color, seed) ==
    LET n == HoverDraws(realityId)
    IN  [k \in 1..count |->
            HoverParticle(Draws(seed, n * (k - 1) + 1, n), k - 1, realityId, color)]

\* document.documentElement.style after the setProperty calls of one render
SetProperties(style, generated) ==
    LET written == {generated[k].props.tx : k \in DOMAIN generated}
                   \cup {generated[k].props.ty : k \in DOMAIN generated}
        ValueOf(name) ==
            LET k == CHOOSE k \in DOMAIN generated :
                        generated[k].props.tx = name \/ generated[k].props.ty = name
            IN  IF generated[k].props.tx = name THEN generated[k].values.tx
                ELSE generated[k].values.ty
    IN  [name \in (DOMAIN style) \cup written |->
            IF name \in written THEN ValueOf(name) ELSE style[name]]

\* the elements PortalHoverParticles returns
HoverElements(generated) ==
    [k \in DOMAIN generated |-> [key |-> generated[k].key, style |-> generated[k].style]]

(***************************************************************************)
(* PortalScreen, OrbitalHud and ImmersivePlayer: modes, timed transitions  *)
(* and the exit ritual.  A pending timeout is a record [kind, arg, left]:  *)
(* left is the time in ms until it is due (<= 0: due); timeouts run in the *)
(* order of their due times and, for equal due times, of their setTimeout  *)
(* calls.  The sound and haptic calls of the handlers have no effect on    *)
(* the state modelled here, except modulateEnvironment, whose argument is  *)
(* recorded in envCalls.                                                   *)
(***************************************************************************)
\* null, for an index
NoIndex == 0 - 1

systemModes ==
    << [index |-> 0, id |-> "gateway"],
       [index |-> 1, id |-> "scanner"],
       [index |-> 2, id |-> "vault"] >>

switchDelay == 500
captureDelay == 2000
warpDelay == 1000
hudResetDelay == 300
exitIncrement == 2
exitFull == 100

Timer(kind, arg, delay) == [kind |-> kind, arg |-> arg, left |-> delay]

\* mutant: a new timeout takes the place of the pending timeouts of its kind
setTimeoutReplacing(pending, kind, arg, delay) ==
    Append(SelectSeq(pending, LAMBDA t : t.kind # kind), Timer(kind, arg, delay))

\* setTimeout(callback, delay): one more pending timeout
setTimeout(pending, kind, arg, delay) == Append(pending, Timer(kind, arg, delay))

\* the step of useCorruption's interval: the double the literal 0.005 denotes,
\* 5764607523034235 * 2^-60
corruptionIncrement == Double(5368709, 128849019)

\* the period of useCorruption's interval, in ms
corruptionPeriod == 50

\* a variant that starts over at 0 instead of staying at 1
CorruptionNextWrapping(prev) ==
    IF DoubleGeq(prev, One) THEN Zero ELSE DoubleAdd(prev, corruptionIncrement)

\* setCorruption(prev => { if (prev >= 1) return 1; return prev + 0.005; })
CorruptionNext(prev) ==
    IF DoubleGeq(prev, One) THEN One ELSE DoubleAdd(prev, corruptionIncrement)

\* the argument of useCorruption: !isTransitioning && warpPhase === 'idle' && activeDimension === 0
GatewayIdle == ~isTransitioning /\ warpPhase = "idle" /\ activeDimension = 0

\* the PortalScreen state the handlers below read and write
PortalState ==
    [activeDimension |-> activeDimension, selectedRealityId |-> selectedRealityId,
     isTransitioning |-> isTransitioning, warpPhase |-> warpPhase,
     isScanning |-> isScanning, timers |-> timers, lastSwitch |-> lastSwitch]

\* mutant: the guard of handleSwitchMode is missing
SwitchNeededAlways(index, active) == TRUE

\* if (index === activeDimension) return
SwitchNeeded(index, active) == index # active

\* handleSwitchMode(index), applied to the state st
handleSwitchMode(st, index) ==
    IF ~SwitchNeeded(index, st.activeDimension) THEN st
    ELSE [st EXCEPT !.isTransitioning = TRUE,
                    !.timers = setTimeout(@, "switch", index, switchDelay),
                    !.lastSwitch = index]

\* mutant: the guard of handleCapture is missing
CaptureAllowedAlways(scanning) == TRUE

\* if (isScanning) return
CaptureAllowed(scanning) == ~scanning

\* handleCapture(), applied to the state st
handleCapture(st) ==
    IF ~CaptureAllowed(st.isScanning) THEN st
    ELSE [st EXCEPT !.isScanning = TRUE,
                    !.timers = setTimeout(@, "capture", NoIndex, captureDelay)]

\* handleWarp(), applied to the state st
handleWarp(st) ==
    IF st.warpPhase # "idle" THEN st
    ELSE [st EXCEPT !.warpPhase = "accelerating",
                    !.timers = setTimeout(@, "warp", NoIndex, warpDelay)]

\* item.id.startsWith('locked')
IsLocked(id) == Len(id) >= 1 /\ id[1] = "locked"

Digits == {"0", "1", "2", "3", "4", "5", "6", "7", "8", "9"}

\* mutant: the pattern is /-dup$/, without the optional digit
StripDupNoDigit(id) ==
    IF Len(id) >= 1 /\ id[Len(id)] = "-dup" THEN SubSeq(id, 1, Len(id) - 1)
    ELSE id

\* item.id.replace(/-dup\d?$/, ''): a final '-dup', or a final '-dup' and one digit,
\* is removed
StripDup(id) ==
    IF Len(id) >= 2 /\ id[Len(id)] \in Digits /\ id[Len(id) - 1] = "-dup"
    THEN SubSeq(id, 1, Len(id) - 2)
    ELSE IF Len(id) >= 1 /\ id[Len(id)] = "-dup" THEN SubSeq(id, 1, Len(id) - 1)
    ELSE id

\* handleSelectReality(id), applied to the state st
handleSelectReality(st, id) == handleSwitchMode([st EXCEPT !.selectedRealityId = id], 0)

\* mutant: a click on the scanner button captures whatever the current mode is
IsCaptureClickAnyMode(currentMode, index) == index = 1

\* if (currentMode === 1 && index === 1)
IsCaptureClick(currentMode, index) == currentMode = 1 /\ index = 1

\* the callbacks OrbitalHud.handleClick(index) invokes
HudCalls(currentMode, index) ==
    IF IsCaptureClick(currentMode, index) THEN << <<"onCapture", NoIndex>> >>
    ELSE << <<"onSwitchMode", index>> >>

\* the PortalScreen state after those callbacks
ApplyCalls(st, calls) ==
    IF calls = <<>> THEN st
    ELSE IF calls[1][1] = "onCapture" THEN handleCapture(st)
    ELSE handleSwitchMode(st, calls[1][2])

\* the pending timeouts of OrbitalHud's setClickedIndex(null) lose their component
OrphanHud(pending) ==
    [k \in DOMAIN pending |->
        IF pending[k].kind = "hudReset" THEN [pending[k] EXCEPT !.kind = "hudResetOrphan"]
        ELSE pending[k]]

Interval(status, prev) == [status |-> status, prev |-> prev]

\* the running intervals of an ImmersivePlayer that unmounts are not cleared: they
\* keep running, their callbacks bound to the state (prev) of the unmounted player
OrphanIntervals(ivs, prev) ==
    [id \in DOMAIN ivs |->
        IF ivs[id].status = "running" THEN Interval("orphan", prev) ELSE ivs[id]]

\* clearInterval(id)
clearInterval(ivs, id) ==
    [j \in DOMAIN ivs |->
        IF j = id /\ ivs[j].status = "running" THEN Interval("free", 0) ELSE ivs[j]]

\* 1 - (next / 100)
ExitIntensity(next) == FP - (next * FP) \div 100

\* if (next >= 100)
ExitReached(next) == next >= exitFull

(***************************************************************************)
(* The deep link, the intro and the renders of PortalScreen.               *)
(* window.location.hash is held split at '?': path is the sequence of the  *)
(* words before the first '?', queries the sequence of the segments after  *)
(* it, each a sequence of parameters [key, value], a value being an id.    *)
(***************************************************************************)
Hash(path, queries) == [path |-> path, queries |-> queries]

Param(key, value) == [key |-> key, value |-> value]

\* hash.includes(word), for a word that is one of the hash's tokens
HashIncludes(h, word) ==
    \/ \E k \in DOMAIN h.path : h.path[k] = word
    \/ \E q \in DOMAIN h.queries : \E k \in DOMAIN h.queries[q] :
          \/ h.queries[q][k].key = word
          \/ \E t \in DOMAIN h.queries[q][k].value : h.queries[q][k].value[t] = word

\* new URLSearchParams(hash.split('?')[1]): the parameters of the first segment
\* after a '?', none when there is no '?'
HashParams(h) == IF Len(h.queries) >= 1 THEN h.queries[1] ELSE <<>>

\* params.get(key): the value of the first parameter of that name, or null
ParamsGet(params, key) ==
    IF \E k \in DOMAIN params : params[k].key = key
    THEN LET k == CHOOSE k \in DOMAIN params :
                      /\ params[k].key = key
                      /\ \A j \in DOMAIN params : params[j].key = key => k <= j
         IN  [found |-> TRUE, value |-> params[k].value]
    ELSE [found |-> FALSE, value |-> <<>>]

\* the deep-link effect's matchedReality: hash.includes('open'), then a non-empty id
\* parameter, then realities.find(r => r.id === id)
LinkTarget(h) ==
    LET id == ParamsGet(HashParams(h), "id")
    IN  IF /\ HashIncludes(h, "open")
           /\ id.found /\ id.value # <<>>
           /\ \E k \in DOMAIN realities : realities[k].id = id.value
        THEN [matched |-> TRUE, id |-> id.value]
        ELSE [matched |-> FALSE, id |-> <<>>]

linkDelay == 1500

\* the delays of CinematicIntro's four timeouts; timeout i sets step to i
introDelays == <<500, 1500, 2800, 2900>>

IntroTimer(set, left) == [set |-> set, left |-> left]

\* the timeouts after CinematicIntro's effect has run
IntroFresh == [i \in DOMAIN introDelays |-> IntroTimer(TRUE, introDelays[i])]

\* the timeouts after the effect's cleanup (clearTimeout of all four)
IntroCleared == [i \in DOMAIN introDelays |-> IntroTimer(FALSE, 0)]

\* not counted, for the clicks the user may still make
NoLimit == 0 - 1

\* one click is used up
AfterInput(n) == IF n > 0 THEN n - 1 ELSE n

\* useEffect(..., [nervous]): useNervousSystem returns a new object on every render,
\* so the deep-link effect runs after every render of PortalScreen
LinkEffectRuns(rendered) == rendered

\* useEffect(..., [onComplete]): PortalScreen passes a new arrow function on every
\* render, so CinematicIntro's effect (cleanup, then four new timeouts) runs after
\* every render of PortalScreen
IntroEffectRuns(rendered) == rendered

helixVars == <<helixItems, vaultMounted, vaultItems, helixCalls, headerOpacity>>
emitterVars == <<rngState, clock, emitterCount, takingOver, takingOverMounted,
                 prevTakingOver, particleCalls, hoverElements, hoverRealityId, rootStyle,
                 hoverCalls>>
particleVars == <<emitterVars, corruption>>
portalVars == <<activeDimension, selectedRealityId, isTransitioning, warpPhase, isScanning,
                clickedIndex, timers, exitProgress, pressTimer, intervals, envCalls,
                lastSwitch, lastEvent>>
linkVars == <<isProcessingFile, linkTimers>>
introVars == <<introComplete, step, introTimers, onCompleteCalls>>
screenVars == <<linkVars, introVars, hash, inputs>>
humVars == <<humOscillator, oscillators, humStops>>
vars == <<helixVars, particleVars, portalVars, screenVars, humVars>>

NoRender == [rendered |-> FALSE]

\* the values the helix variables have while VaultDimension has not been mounted
HelixIdle ==
    /\ vaultMounted = FALSE
    /\ vaultItems = <<>>
    /\ helixCalls = 0
    /\ headerOpacity = FP

Event(handler, index, calls) == [handler |-> handler, index |-> index, calls |-> calls]

\* the state of PortalScreen and its children after the first render
PortalIdle ==
    /\ activeDimension = 0
    /\ selectedRealityId = <<"dragon">>
    /\ isTransitioning = FALSE
    /\ warpPhase = "idle"
    /\ isScanning = FALSE
    /\ clickedIndex = NoIndex
    /\ timers = <<>>
    /\ exitProgress = 0
    /\ pressTimer = 0
    /\ intervals = [id \in 1..MaxIntervals |-> Interval("free", 0)]
    /\ envCalls = <<>>
    /\ lastSwitch = NoIndex
    /\ lastEvent = Event("render", NoIndex, <<>>)

\* no deep link, the intro completed, the clicks not counted
ScreenIdle ==
    /\ hash = Hash(<<>>, <<>>)
    /\ isProcessingFile = FALSE
    /\ linkTimers = {}
    /\ introComplete = TRUE
    /\ step = Len(introDelays)
    /\ introTimers = IntroCleared
    /\ onCompleteCalls = 1
    /\ inputs = NoLimit

\* no hum oscillator has been created
HumIdle ==
    /\ humOscillator = 0
    /\ oscillators = [id \in 1..MaxOscillators |-> "none"]
    /\ humStops = <<>>

\* the values the particle variables have before any emitter has rendered
ParticlesIdle ==
    /\ clock = 0
    /\ takingOver = NoRender
    /\ takingOverMounted = FALSE
    /\ corruption = Zero
    /\ prevTakingOver = NoRender
    /\ particleCalls = 0
    /\ hoverElements = <<>>
    /\ hoverRealityId = <<>>
    /\ rootStyle = <<>>
    /\ hoverCalls = 0

(***************************************************************************)
(* Specification of the helix layout: the input is drawn from bounded      *)
(* sequences (every prefix of the vault's 19 base items, and every         *)
(* sequence of at most MaxItems realities); VaultDimension evaluates the   *)
(* layout when it mounts and keeps the memoised value across re-renders.   *)
(***************************************************************************)
RECURSIVE SeqsUpTo(_, _)
SeqsUpTo(S, n) ==
    IF n = 0 THEN {<<>>}
    ELSE LET shorter == SeqsUpTo(S, n - 1)
         IN  shorter \cup {Append(s, x) : s \in shorter, x \in S}

Range(s) == {s[k] : k \in DOMAIN s}

HelixInputs ==
    {SubSeq(baseItems, 1, n) : n \in 0..Len(baseItems)} \cup SeqsUpTo(Range(realities), MaxItems)

ScrollTops == {k * ScrollStep : k \in 0..MaxScrollSteps}

InitHelix ==
    /\ helixItems \in HelixInputs
    /\ HelixIdle
    /\ rngState = 0
    /\ emitterCount = particleCount
    /\ ParticlesIdle
    /\ PortalIdle
    /\ ScreenIdle
    /\ HumIdle

\* first render of VaultDimension: useState(1) and useMemo(() => baseItems.map(...), [])
MountVault ==
    /\ ~vaultMounted
    /\ helixCalls < MaxHelixCalls
    /\ vaultMounted' = TRUE
    /\ headerOpacity' = FP
    /\ vaultItems' = layoutHelix(helixItems)
    /\ helixCalls' = helixCalls + 1
    /\ UNCHANGED <<helixItems, particleVars, portalVars, screenVars, humVars>>

\* handleScroll: sets headerOpacity; the re-render keeps the memoised vaultItems
handleScroll(scrollTop) ==
    /\ vaultMounted
    /\ headerOpacity' = HeaderOpacity(scrollTop)
    /\ UNCHANGED <<helixItems, vaultMounted, vaultItems, helixCalls, particleVars, portalVars, screenVars, humVars>>

\* PortalScreen renders the ImmersivePlayer instead of its dimensions: VaultDimension unmounts
UnmountVault ==
    /\ vaultMounted
    /\ vaultMounted' = FALSE
    /\ UNCHANGED <<helixItems, vaultItems, helixCalls, headerOpacity, particleVars, portalVars, screenVars, humVars>>

NextHelix ==
    \/ MountVault
    \/ \E scrollTop \in ScrollTops : handleScroll(scrollTop)
    \/ UnmountVault

SpecHelix == InitHelix /\ [][NextHelix]_vars

(***************************************************************************)
(* Properties of the helix layout, checked under SpecHelix.                *)
(***************************************************************************)
ScaleMin == (6 * FP) \div 10
ScaleMax == (11 * FP) \div 10
OpacityMin == (4 * FP) \div 10
OpacityMax == FP

\* depth values -1, -0.995, ..., 0.995, 1
DepthGrid == {d \in (0 - FP)..FP : d % 50 = 0}

\* C1: the layout returns exactly one placement per input item, in the input's
\* order: placement k carries item k's id and metadata; an empty input yields an
\* empty output, and the vault's 19 base items yield 19 placements.
C1_OnePlacementPerItem ==
    helixCalls > 0 =>
        /\ Len(vaultItems) = Len(helixItems)
        /\ \A k \in 1..Len(helixItems) :
              \A f \in DOMAIN helixItems[k] : vaultItems[k][f] = helixItems[k][f]
        /\ (helixItems = <<>> => vaultItems = <<>>)
        /\ (helixItems = baseItems => Len(vaultItems) = 19)

C1_Witness ==
    /\ helixCalls > 0
    /\ helixItems = baseItems
    /\ Len(vaultItems) = 19
    /\ vaultItems[5].id = <<"dragon", "-dup">>
    /\ vaultItems[19].id = <<"locked", "-", "3">>

\* C2: the placement at index i is on strand A iff i is even and on strand B iff
\* i is odd; the phase offset of its angle is 0 on strand A and pi on strand B.
C2_StrandParity ==
    helixCalls > 0 =>
        \A k \in 1..Len(vaultItems) :
            LET i == k - 1
                p == vaultItems[k]
                offset == IF i % 2 = 0 THEN 0 ELSE Pi
            IN  /\ p.strand = "A" <=> i % 2 = 0
                /\ p.strand = "B" <=> i % 2 = 1
                /\ PhaseOffset(p.strand) = offset
                /\ p.left = baseLeft * FP + Sin(i * frequency + offset) * amplitude
                /\ p.scale = ZScale(Cos(i * frequency + offset))

C2_Witness ==
    /\ helixCalls > 0
    /\ Len(vaultItems) >= 4
    /\ vaultItems[1].strand = "A"
    /\ vaultItems[2].strand = "B"
    /\ vaultItems[3].strand = "A"
    /\ vaultItems[4].strand = "B"

\* C3: every placement has its scale within [0.6, 1.1] and its opacity within
\* [0.4, 1.0], and so do the scale and opacity of any depth value in [-1, 1].
C3_ScaleOpacityRange ==
    /\ \A k \in 1..Len(vaultItems) :
          /\ vaultItems[k].scale >= ScaleMin /\ vaultItems[k].scale <= ScaleMax
          /\ vaultItems[k].opacity >= OpacityMin /\ vaultItems[k].opacity <= OpacityMax
    /\ \A d \in DepthGrid :
          /\ ZScale(d) >= ScaleMin /\ ZScale(d) <= ScaleMax
          /\ Opacity(d) >= OpacityMin /\ Opacity(d) <= OpacityMax

C3_Witness ==
    /\ helixCalls > 0
    /\ \E k \in 1..Len(vaultItems) :
          vaultItems[k].scale = ScaleMax /\ vaultItems[k].opacity = OpacityMax
    /\ \E k \in 1..Len(vaultItems) :
          vaultItems[k].scale < ScaleMin + 10 /\ vaultItems[k].opacity < OpacityMin + 10

\* C4: every placement's zIndex is floor(scale * 100), and for any two placements
\* scale(j) <= scale(k) implies zIndex(j) <= zIndex(k).
C4_ZOrderFloor ==
    helixCalls > 0 =>
        /\ \A k \in 1..Len(vaultItems) :
              /\ vaultItems[k].zIndex * FP <= vaultItems[k].scale * 100
              /\ vaultItems[k].scale * 100 < (vaultItems[k].zIndex + 1) * FP
        /\ \A j, k \in 1..Len(vaultItems) :
              vaultItems[j].scale <= vaultItems[k].scale
                  => vaultItems[j].zIndex <= vaultItems[k].zIndex

C4_Witness ==
    /\ helixCalls > 0
    /\ \E j, k \in 1..Len(vaultItems) :
          /\ vaultItems[j].scale < vaultItems[k].scale
          /\ vaultItems[j].zIndex < vaultItems[k].zIndex
          /\ (vaultItems[j].scale * 100) % FP >= FP \div 2

\* C5: scale and opacity are non-decreasing in the depth: for any two indices,
\* depth(j) > depth(k) implies scale(j) >= scale(k) and opacity(j) >= opacity(k).
C5_DepthMonotone ==
    helixCalls > 0 =>
        \A j, k \in 1..Len(vaultItems) :
            HelixDepth(j - 1) > HelixDepth(k - 1)
                => /\ vaultItems[j].scale >= vaultItems[k].scale
                   /\ vaultItems[j].opacity >= vaultItems[k].opacity

C5_Witness ==
    /\ helixCalls > 0
    /\ \E j, k \in 1..Len(vaultItems) :
          /\ HelixDepth(j - 1) > HelixDepth(k - 1)
          /\ vaultItems[j].scale > vaultItems[k].scale
          /\ vaultItems[j].opacity > vaultItems[k].opacity

\* C6: the vertical position is strictly increasing in the index:
\* top(i) = 150 + 110 * i, so consecutive placements are 110 apart.
C6_VerticalIncreasing ==
    helixCalls > 0 =>
        /\ \A k \in 1..Len(vaultItems) : vaultItems[k].top = 150 + 110 * (k - 1)
        /\ \A k \in 1..(Len(vaultItems) - 1) :
              /\ vaultItems[k + 1].top - vaultItems[k].top = 110
              /\ vaultItems[k + 1].top > vaultItems[k].top

C6_Witness ==
    /\ helixCalls > 0
    /\ Len(vaultItems) >= 3
    /\ vaultItems[1].top = 150
    /\ vaultItems[3].top = 370

Counts == {0, 1, particleCount, hoverCount}
Seeds == 0..MaxSeed

InitParticles ==
    /\ helixItems = baseItems
    /\ HelixIdle
    /\ rngState \in Seeds
    /\ emitterCount \in Counts
    /\ ParticlesIdle
    /\ PortalIdle
    /\ ScreenIdle
    /\ HumIdle

\* a seeded random source is put in place of Math.random (or re-seeded)
SeedRandom(seed) ==
    /\ particleCalls + hoverCalls < MaxRenders
    /\ rngState # seed
    /\ rngState' = seed
    /\ UNCHANGED <<helixVars, portalVars, screenVars, humVars, clock, emitterCount, takingOver, takingOverMounted, corruption,
                   prevTakingOver, particleCalls, hoverElements, hoverRealityId, rootStyle,
                   hoverCalls>>

\* time passes: Date.now() reads a later value
Tick ==
    /\ particleCalls + hoverCalls < MaxRenders
    /\ clock < MaxTicks * ClockStep
    /\ clock' = clock + ClockStep
    /\ UNCHANGED <<helixVars, portalVars, screenVars, humVars, rngState, emitterCount, takingOver, takingOverMounted, corruption,
                   prevTakingOver, particleCalls, hoverElements, hoverRealityId, rootStyle,
                   hoverCalls>>

\* a render of <TakingOverParticles color={reality.particleColor} speed={...} shape={reality.particleShape} />
RenderTakingOver(reality) ==
    LET color == reality.particleColor
        speed == TakingOverSpeed(reality)
        shape == reality.particleShape
    IN  /\ particleCalls + hoverCalls < MaxRenders
        /\ takingOver' =
              [rendered |-> TRUE, count |-> emitterCount, color |-> color, speed |-> speed,
               shape |-> shape, seed |-> rngState, now |-> clock,
               out |-> generateParticles(emitterCount, color, speed, shape, rngState, clock)]
        /\ prevTakingOver' = takingOver
        /\ rngState' = RandAfter(rngState, TakingOverDraws * emitterCount)
        /\ particleCalls' = particleCalls + 1
        /\ takingOverMounted' = TRUE
        /\ UNCHANGED <<helixVars, portalVars, screenVars, humVars, clock, emitterCount, corruption, hoverElements, hoverRealityId,
                       rootStyle, hoverCalls>>

\* a render of <PortalHoverParticles realityId={reality.id} color={reality.particleColor} />
RenderHover(reality) ==
    LET generated == generateHoverParticles(emitterCount, reality.id, reality.particleColor, rngState)
    IN  /\ particleCalls + hoverCalls < MaxRenders
        /\ hoverElements' = HoverElements(generated)
        /\ hoverRealityId' = reality.id
        /\ rootStyle' = SetProperties(rootStyle, generated)
        /\ rngState' = RandAfter(rngState, HoverDraws(reality.id) * emitterCount)
        /\ hoverCalls' = hoverCalls + 1
        /\ UNCHANGED <<helixVars, portalVars, screenVars, humVars, clock, emitterCount, takingOver, takingOverMounted, corruption,
                       prevTakingOver, particleCalls>>

\* a tick of useCorruption's interval while the gateway is idle: corruption grows and
\* PortalScreen renders again, and with it the particle emitters it shows, first
\* TakingOverParticles, then (inside CinematicCard) PortalHoverParticles, with the
\* props they have
corruptionTick ==
    LET seedAfter == RandAfter(rngState, TakingOverDraws * emitterCount)
        hoverReality == CHOOSE r \in Range(realities) : r.id = hoverRealityId
        generated == generateHoverParticles(emitterCount, hoverRealityId,
                                            hoverReality.particleColor, seedAfter)
    IN  /\ GatewayIdle
        /\ takingOverMounted
        /\ particleCalls + hoverCalls < MaxRenders
        /\ CorruptionNext(corruption) # corruption
        /\ corruption' = CorruptionNext(corruption)
        /\ takingOver' =
              [takingOver EXCEPT
                  !.seed = rngState, !.now = clock,
                  !.out = generateParticles(emitterCount, takingOver.color, takingOver.speed,
                                            takingOver.shape, rngState, clock)]
        /\ prevTakingOver' = takingOver
        /\ particleCalls' = particleCalls + 1
        /\ IF hoverCalls > 0
           THEN /\ hoverElements' = HoverElements(generated)
                /\ rootStyle' = SetProperties(rootStyle, generated)
                /\ rngState' = RandAfter(seedAfter, HoverDraws(hoverRealityId) * emitterCount)
                /\ hoverCalls' = hoverCalls + 1
           ELSE /\ rngState' = seedAfter
                /\ UNCHANGED <<hoverElements, rootStyle, hoverCalls>>
        /\ UNCHANGED <<helixVars, portalVars, screenVars, humVars, clock, emitterCount, takingOverMounted,
                       hoverRealityId>>

\* the owner stops showing TakingOverParticles (activeDimension leaves 0, or the
\* ImmersivePlayer unmounts); the last output is kept for comparison
UnmountTakingOver ==
    /\ takingOverMounted
    /\ takingOverMounted' = FALSE
    /\ UNCHANGED <<helixVars, portalVars, screenVars, humVars, rngState, clock, emitterCount, takingOver, corruption,
                   prevTakingOver, particleCalls, hoverElements, hoverRealityId, rootStyle,
                   hoverCalls>>

NextParticles ==
    \/ \E seed \in Seeds : SeedRandom(seed)
    \/ Tick
    \/ \E reality \in Range(realities) : RenderTakingOver(reality)
    \/ \E reality \in Range(realities) : RenderHover(reality)
    \/ corruptionTick
    \/ UnmountTakingOver

SpecParticles == InitParticles /\ [][NextParticles]_vars


(***************************************************************************)
(* Specifications of PortalScreen with its OrbitalHud and ImmersivePlayer. *)
(* Under SpecPortal the user clicks the HUD buttons and the portal card,   *)
(* time passes, the pending timeouts run their callbacks, and a mounted    *)
(* player calls onExit when its exit ritual is complete.  Under SpecPlayer *)
(* the user clicks the portal card and presses and releases in the player, *)
(* whose exit ritual is followed tick by tick.                             *)
(***************************************************************************)
InitPortal ==
    /\ helixItems = baseItems
    /\ HelixIdle
    /\ rngState = 0
    /\ emitterCount = particleCount
    /\ ParticlesIdle
    /\ PortalIdle
    /\ ScreenIdle
    /\ HumIdle

\* the new values of the PortalScreen state read and written by its handlers
SetPortal(st) ==
    /\ activeDimension' = st.activeDimension
    /\ selectedRealityId' = st.selectedRealityId
    /\ isTransitioning' = st.isTransitioning
    /\ warpPhase' = st.warpPhase
    /\ isScanning' = st.isScanning
    /\ timers' = st.timers
    /\ lastSwitch' = st.lastSwitch

\* a handler that leaves PortalScreen in the state st has changed its state
Changed(st) ==
    <<st.activeDimension, st.selectedRealityId, st.isTransitioning, st.warpPhase, st.isScanning>>
        # <<activeDimension, selectedRealityId, isTransitioning, warpPhase, isScanning>>

\* The renders of PortalScreen after a handler and the effects that follow them.
\* changed: the handler changed PortalScreen's state; corr, links, processing,
\* complete and intro: the values the handler leaves in corruption, linkTimers,
\* isProcessingFile, introComplete and introTimers.  useCorruption's effect resets corruption when the gateway has
\* stopped being idle (one more state change and render); after a render the
\* deep-link effect runs again, and so does the effect of a mounted CinematicIntro.
\* The timeouts of the deep-link effect that are due at the same time are held once.
Render(changed, corr, links, processing, complete, intro) ==
    LET rendered == changed \/ (~GatewayIdle' /\ corr # Zero)
        linked   == LinkEffectRuns(rendered) /\ LinkTarget(hash).matched
        mounted  == ~complete /\ warpPhase' # "warped"
    IN  /\ corruption' = IF GatewayIdle' THEN corr ELSE Zero
        /\ isProcessingFile' = IF linked THEN TRUE ELSE processing
        /\ linkTimers' = IF linked THEN links \cup {linkDelay} ELSE links
        /\ introTimers' = IF ~mounted THEN IntroCleared
                          ELSE IF IntroEffectRuns(rendered) THEN IntroFresh
                          ELSE intro

\* the same, after a handler that touches none of the five itself
Rerender(changed) ==
    Render(changed, corruption, linkTimers, isProcessingFile, introComplete, introTimers)

playerVars == <<exitProgress, pressTimer, intervals, envCalls>>
introState == <<introComplete, step, onCompleteCalls>>

\* the variables no handler of PortalScreen, OrbitalHud or ImmersivePlayer writes
restVars == <<helixVars, emitterVars, humVars, hash>>

\* the intro overlay and the "parsing data" overlay cover the whole screen and take
\* the pointer events
PointerBlocked == ~introComplete \/ isProcessingFile

\* OrbitalHud.handleClick(index): a click on the HUD button of a mode (its buttons
\* can be activated from the keyboard, whatever covers them)
handleClick(index) ==
    LET calls   == HudCalls(activeDimension, index)
        clicked == [PortalState EXCEPT
                       !.timers = setTimeout(@, "hudReset", NoIndex, hudResetDelay)]
        after   == ApplyCalls(clicked, calls)
    IN  /\ warpPhase # "warped"
        /\ inputs # 0
        /\ Len(timers) + 2 <= MaxTimers
        /\ clickedIndex' = index
        /\ SetPortal(after)
        /\ Rerender(Changed(after))
        /\ inputs' = AfterInput(inputs)
        /\ lastEvent' = Event("handleClick", index, calls)
        /\ UNCHANGED <<restVars, playerVars, introState>>

\* a click on the portal card (CinematicCard's onClick calls onWarp = handleWarp);
\* the card takes pointer events while the gateway is shown
onWarp ==
    LET after == handleWarp(PortalState)
    IN  /\ warpPhase # "warped"
        /\ activeDimension = 0 /\ ~isTransitioning
        /\ ~PointerBlocked
        /\ inputs # 0
        /\ Len(timers) < MaxTimers
        /\ SetPortal(after)
        /\ Rerender(Changed(after))
        /\ inputs' = AfterInput(inputs)
        /\ lastEvent' = Event("onWarp", NoIndex, <<>>)
        /\ UNCHANGED <<restVars, playerVars, introState, clickedIndex>>

\* a click on item k of the vault (VaultDimension's onClick); the vault takes pointer
\* events while it is the active dimension
vaultClick(k) ==
    LET id     == baseItems[k].id
        locked == IsLocked(id)
        after  == IF locked THEN PortalState
                  ELSE handleSelectReality(PortalState, StripDup(id))
    IN  /\ warpPhase # "warped"
        /\ activeDimension = 2 /\ ~isTransitioning
        /\ ~PointerBlocked
        /\ inputs # 0
        /\ Len(timers) < MaxTimers
        /\ SetPortal(after)
        /\ Rerender(Changed(after))
        /\ inputs' = AfterInput(inputs)
        /\ lastEvent' = Event("vaultClick", k,
                              IF locked THEN <<>> ELSE << <<"onSelectReality", k>> >>)
        /\ UNCHANGED <<restVars, playerVars, introState, clickedIndex>>

\* the times until all the pending timeouts are due
AllLefts ==
    {timers[k].left : k \in DOMAIN timers}
    \cup linkTimers
    \cup {introTimers[i].left : i \in {j \in DOMAIN introTimers : introTimers[j].set}}
    \cup {humStops[k].left : k \in DOMAIN humStops}

\* no pending timeout is due before the one with left ms to go
Earliest(left) == \A other \in AllLefts : left <= other

\* ms pass for a sequence of pending timeouts, for the deep-link timeouts and for
\* the intro's timeouts
PassTimers(pending, ms) == [k \in DOMAIN pending |-> [pending[k] EXCEPT !.left = @ - ms]]
PassLinks(links, ms) == {left - ms : left \in links}
PassIntro(intro, ms) ==
    [i \in DOMAIN intro |->
        IF intro[i].set THEN IntroTimer(TRUE, intro[i].left - ms) ELSE intro[i]]

\* TimeStep ms pass; a timeout that is due runs before more time passes
Elapse ==
    /\ AllLefts # {}
    /\ \A left \in AllLefts : left > 0
    /\ timers' = PassTimers(timers, TimeStep)
    /\ linkTimers' = PassLinks(linkTimers, TimeStep)
    /\ introTimers' = PassIntro(introTimers, TimeStep)
    /\ humStops' = PassTimers(humStops, TimeStep)
    /\ lastEvent' = Event("elapse", NoIndex, <<>>)
    /\ UNCHANGED <<helixVars, particleVars, playerVars, introState, hash, inputs,
                   humOscillator, oscillators, isProcessingFile, activeDimension,
                   selectedRealityId, isTransitioning, warpPhase, isScanning, clickedIndex,
                   lastSwitch>>

\* one period of useCorruption's interval passes: the pending timeouts come 50 ms
\* closer and, while the gateway is idle, the interval's callback runs
elapsePeriod ==
    LET corr == IF GatewayIdle THEN CorruptionNext(corruption) ELSE corruption
    IN  /\ \A left \in AllLefts : left > 0
        /\ timers' = PassTimers(timers, corruptionPeriod)
        /\ humStops' = PassTimers(humStops, corruptionPeriod)
        /\ UNCHANGED <<activeDimension, isTransitioning, warpPhase>>
        /\ Render(corr # corruption, corr, PassLinks(linkTimers, corruptionPeriod),
                  isProcessingFile, introComplete, PassIntro(introTimers, corruptionPeriod))
        /\ lastEvent' = Event("elapsePeriod", NoIndex, <<>>)
        /\ UNCHANGED <<helixVars, emitterVars, playerVars, introState, hash, inputs,
                       humOscillator, oscillators, selectedRealityId, isScanning,
                       clickedIndex, lastSwitch>>

\* timeout k is due and no other pending timeout runs before it
FirstDue(k) ==
    /\ timers[k].left <= 0
    /\ Earliest(timers[k].left)
    /\ \A j \in DOMAIN timers :
          j # k => \/ timers[j].left > timers[k].left
                   \/ (timers[j].left = timers[k].left /\ j > k)

Remove(seq, k) == SubSeq(seq, 1, k - 1) \o SubSeq(seq, k + 1, Len(seq))

TimeoutEvent(k) == Event("timeout", timers[k].arg, << <<timers[k].kind, timers[k].arg>> >>)

\* the callback of handleSwitchMode: setActiveDimension(index); setIsTransitioning(false)
switchCallback(k) ==
    LET after == [PortalState EXCEPT !.activeDimension = timers[k].arg,
                                     !.isTransitioning = FALSE,
                                     !.timers = Remove(timers, k)]
    IN  /\ FirstDue(k) /\ timers[k].kind = "switch"
        /\ SetPortal(after)
        /\ Rerender(Changed(after))
        /\ lastEvent' = TimeoutEvent(k)
        /\ UNCHANGED <<restVars, playerVars, introState, inputs, clickedIndex>>

\* the callback of handleCapture: setIsScanning(false)
captureCallback(k) ==
    LET after == [PortalState EXCEPT !.isScanning = FALSE, !.timers = Remove(timers, k)]
    IN  /\ FirstDue(k) /\ timers[k].kind = "capture"
        /\ SetPortal(after)
        /\ Rerender(Changed(after))
        /\ lastEvent' = TimeoutEvent(k)
        /\ UNCHANGED <<restVars, playerVars, introState, inputs, clickedIndex>>

\* the callback of handleWarp: setWarpPhase('warped'); PortalScreen then renders the
\* ImmersivePlayer alone: the OrbitalHud unmounts and, unless a player is mounted
\* already, a fresh player mounts
warpCallback(k) ==
    LET after == [PortalState EXCEPT !.warpPhase = "warped",
                                     !.timers = OrphanHud(Remove(timers, k))]
    IN  /\ FirstDue(k) /\ timers[k].kind = "warp"
        /\ SetPortal(after)
        /\ Rerender(Changed(after))
        /\ clickedIndex' = NoIndex
        /\ exitProgress' = IF warpPhase = "warped" THEN exitProgress ELSE 0
        /\ pressTimer' = IF warpPhase = "warped" THEN pressTimer ELSE 0
        /\ lastEvent' = TimeoutEvent(k)
        /\ UNCHANGED <<restVars, introState, inputs, intervals, envCalls>>

\* the callback of OrbitalHud.handleClick: setClickedIndex(null); it has no effect
\* when its OrbitalHud has unmounted
hudResetCallback(k) ==
    /\ FirstDue(k) /\ timers[k].kind \in {"hudReset", "hudResetOrphan"}
    /\ clickedIndex' = IF timers[k].kind = "hudReset" THEN NoIndex ELSE clickedIndex
    /\ timers' = Remove(timers, k)
    /\ lastEvent' = TimeoutEvent(k)
    /\ UNCHANGED <<restVars, corruption, playerVars, screenVars, activeDimension,
                   selectedRealityId, isTransitioning, warpPhase, isScanning, lastSwitch>>

\* the callback of the deep-link effect: setSelectedRealityId(matchedReality.id);
\* setIntroComplete(true); setWarpPhase('warped'); setIsProcessingFile(false)
deepLinkCallback(left) ==
    LET after == [PortalState EXCEPT !.selectedRealityId = LinkTarget(hash).id,
                                     !.warpPhase = "warped",
                                     !.timers = OrphanHud(timers)]
    IN  /\ left \in linkTimers
        /\ left <= 0 /\ Earliest(left)
        /\ SetPortal(after)
        /\ introComplete' = TRUE
        /\ Render(Changed(after) \/ ~introComplete \/ isProcessingFile, corruption,
                  linkTimers \ {left}, FALSE, TRUE, introTimers)
        /\ clickedIndex' = NoIndex
        /\ exitProgress' = IF warpPhase = "warped" THEN exitProgress ELSE 0
        /\ pressTimer' = IF warpPhase = "warped" THEN pressTimer ELSE 0
        /\ lastEvent' = Event("timeout", NoIndex, << <<"deepLink", NoIndex>> >>)
        /\ UNCHANGED <<restVars, step, onCompleteCalls, inputs, intervals, envCalls>>

\* the callback of timeout i of CinematicIntro: setStep(i) and, for the last one,
\* onComplete(), which is () => setIntroComplete(true)
introTimeout(i) ==
    LET last == i = Len(introDelays)
    IN  /\ introTimers[i].set
        /\ introTimers[i].left <= 0 /\ Earliest(introTimers[i].left)
        /\ \A j \in DOMAIN introTimers :
              j < i => ~(introTimers[j].set /\ introTimers[j].left <= introTimers[i].left)
        /\ step' = i
        /\ introComplete' = IF last THEN TRUE ELSE introComplete
        /\ onCompleteCalls' = IF last THEN onCompleteCalls + 1 ELSE onCompleteCalls
        /\ UNCHANGED <<activeDimension, isTransitioning, warpPhase>>
        /\ Render(last /\ ~introComplete, corruption, linkTimers, isProcessingFile,
                  last \/ introComplete, [introTimers EXCEPT ![i] = IntroTimer(FALSE, 0)])
        /\ lastEvent' = Event("timeout", i, << <<"setStep", i>> >>)
        /\ UNCHANGED <<restVars, playerVars, inputs, selectedRealityId, isScanning,
                       clickedIndex, timers, lastSwitch>>

\* onExit={() => setWarpPhase('idle')}, called by the mounted ImmersivePlayer at the
\* end of its exit ritual; PortalScreen then renders its dimensions again
onExit ==
    LET after == [PortalState EXCEPT !.warpPhase = "idle"]
    IN  /\ warpPhase = "warped"
        /\ SetPortal(after)
        /\ Rerender(Changed(after))
        /\ lastEvent' = Event("onExit", NoIndex, <<>>)
        /\ UNCHANGED <<restVars, playerVars, introState, inputs, clickedIndex>>

\* ImmersivePlayer.startExit (mouse down, touch start): a new interval, kept in pressTimer
startExit ==
    /\ warpPhase = "warped"
    /\ \E id \in DOMAIN intervals :
          /\ intervals[id].status = "free"
          /\ \A j \in DOMAIN intervals : intervals[j].status = "free" => id <= j
          /\ intervals' = [intervals EXCEPT ![id] = Interval("running", 0)]
          /\ pressTimer' = id
    /\ lastEvent' = Event("startExit", NoIndex, <<>>)
    /\ UNCHANGED <<restVars, corruption, screenVars, exitProgress, envCalls, activeDimension,
                   selectedRealityId, isTransitioning, warpPhase, isScanning, clickedIndex,
                   timers, lastSwitch>>

\* ImmersivePlayer.cancelExit (mouse up, mouse leave, touch end)
cancelExit ==
    /\ warpPhase = "warped"
    /\ intervals' = IF pressTimer # 0 THEN clearInterval(intervals, pressTimer) ELSE intervals
    /\ exitProgress' = 0
    /\ envCalls' = <<FP>>
    /\ lastEvent' = Event("cancelExit", NoIndex, <<>>)
    /\ UNCHANGED <<restVars, corruption, screenVars, pressTimer, activeDimension,
                   selectedRealityId, isTransitioning, warpPhase, isScanning, clickedIndex,
                   timers, lastSwitch>>

\* a tick of a running interval of the mounted player: the updater of setExitProgress;
\* at 100 it clears pressTimer.current, resets the sound and calls onExit, which sets
\* warpPhase to 'idle' and so unmounts the player
exitTick(id) ==
    LET next == exitProgress + exitIncrement
    IN  /\ warpPhase = "warped"
        /\ intervals[id].status = "running"
        /\ IF ExitReached(next)
           THEN /\ intervals' = OrphanIntervals(clearInterval(intervals, pressTimer), exitFull)
                /\ envCalls' = <<ExitIntensity(next), FP>>
                /\ warpPhase' = "idle"
                /\ exitProgress' = exitFull
                /\ lastEvent' = Event("exitTick", id, << <<"onExit", NoIndex>> >>)
           ELSE /\ exitProgress' = next
                /\ envCalls' = <<ExitIntensity(next)>>
                /\ lastEvent' = Event("exitTick", id, <<>>)
                /\ UNCHANGED <<intervals, warpPhase>>
        /\ UNCHANGED <<activeDimension, isTransitioning>>
        /\ Rerender(ExitReached(next))
        /\ UNCHANGED <<restVars, introState, inputs, pressTimer, selectedRealityId,
                       isScanning, clickedIndex, timers, lastSwitch>>

\* a tick of an interval whose player has unmounted.  React may drop the update of
\* an unmounted component (no step) or run the updater on the state the player had
\* (this step): it computes next from that state, modulates the sound and, at 100,
\* calls onExit again; the state of the unmounted player is not updated
orphanTick(id) ==
    LET next == intervals[id].prev + exitIncrement
    IN  /\ intervals[id].status = "orphan"
        /\ IF ExitReached(next)
           THEN /\ envCalls' = <<ExitIntensity(next), FP>>
                /\ warpPhase' = "idle"
                /\ intervals' = IF warpPhase = "warped"
                                THEN OrphanIntervals(intervals, exitProgress)
                                ELSE intervals
                /\ lastEvent' = Event("orphanTick", id, << <<"onExit", NoIndex>> >>)
           ELSE /\ envCalls' = <<ExitIntensity(next)>>
                /\ lastEvent' = Event("orphanTick", id, <<>>)
                /\ UNCHANGED <<intervals, warpPhase>>
        /\ UNCHANGED <<activeDimension, isTransitioning>>
        /\ Rerender(ExitReached(next) /\ warpPhase # "idle")
        /\ UNCHANGED <<restVars, introState, inputs, exitProgress, pressTimer,
                       selectedRealityId, isScanning, clickedIndex, timers, lastSwitch>>

NextPortal ==
    \/ \E mode \in Range(systemModes) : handleClick(mode.index)
    \/ onWarp
    \/ \E k \in DOMAIN baseItems : vaultClick(k)
    \/ Elapse
    \/ \E k \in DOMAIN timers : switchCallback(k)
    \/ \E k \in DOMAIN timers : captureCallback(k)
    \/ \E k \in DOMAIN timers : warpCallback(k)
    \/ \E k \in DOMAIN timers : hudResetCallback(k)
    \/ onExit

SpecPortal == InitPortal /\ [][NextPortal]_vars

NextPlayer ==
    \/ onWarp
    \/ Elapse
    \/ \E k \in DOMAIN timers : warpCallback(k)
    \/ startExit
    \/ cancelExit
    \/ \E id \in DOMAIN intervals : exitTick(id)
    \/ \E id \in DOMAIN intervals : orphanTick(id)

SpecPlayer == InitPortal /\ [][NextPlayer]_vars

(***************************************************************************)
(* Specifications of PortalScreen from its first render, with its intro,   *)
(* its deep link and useCorruption's interval.  Time passes in periods of  *)
(* the interval (50 ms).  Under SpecIntro the user makes at most           *)
(* MaxIntroInputs clicks on the HUD and the portal card, and a player that *)
(* has mounted stays; under SpecQuiet there is no user input and every     *)
(* timer that is due runs.                                                 *)
(***************************************************************************)
\* '' , '#open', '#open?id=neon', '#open?id=forest', '#open?id=ghost', '#open?id=',
\* '#open?id=neon-dup', '#view?id=neon', '#open?x=1?id=neon', '#view?id=cosmic&open=1'
Hashes ==
    { Hash(<<>>, <<>>),
      Hash(<<"#", "open">>, <<>>),
      Hash(<<"#", "open">>, << <<Param("id", <<"neon">>)>> >>),
      Hash(<<"#", "open">>, << <<Param("id", <<"forest">>)>> >>),
      Hash(<<"#", "open">>, << <<Param("id", <<"ghost">>)>> >>),
      Hash(<<"#", "open">>, << <<Param("id", <<>>)>> >>),
      Hash(<<"#", "open">>, << <<Param("id", <<"neon", "-dup">>)>> >>),
      Hash(<<"#", "view">>, << <<Param("id", <<"neon">>)>> >>),
      Hash(<<"#", "open">>, << <<Param("x", <<"1">>)>>, <<Param("id", <<"neon">>)>> >>),
      Hash(<<"#", "view">>, << <<Param("id", <<"cosmic">>), Param("open", <<"1">>)>> >>) }

\* the state after the first render of PortalScreen and its effects: the intro is
\* mounted with its four timeouts pending; with a matching deep link the effect
\* has set isProcessingFile and its timeout (and, after the render this causes,
\* one more, due at the same time)
ScreenMounted ==
    /\ hash \in Hashes
    /\ isProcessingFile = LinkTarget(hash).matched
    /\ linkTimers = IF LinkTarget(hash).matched THEN {linkDelay} ELSE {}
    /\ introComplete = FALSE
    /\ step = 0
    /\ introTimers = IntroFresh
    /\ onCompleteCalls = 0

InitIntro ==
    /\ helixItems = baseItems
    /\ HelixIdle
    /\ rngState = 0
    /\ emitterCount = particleCount
    /\ ParticlesIdle
    /\ PortalIdle
    /\ ScreenMounted
    /\ inputs = MaxIntroInputs
    /\ HumIdle

NextIntro ==
    \/ \E mode \in Range(systemModes) : handleClick(mode.index)
    \/ onWarp
    \/ elapsePeriod
    \/ \E i \in DOMAIN introTimers : introTimeout(i)
    \/ \E left \in linkTimers : deepLinkCallback(left)
    \/ \E k \in DOMAIN timers : switchCallback(k)
    \/ \E k \in DOMAIN timers : warpCallback(k)
    \/ \E k \in DOMAIN timers : hudResetCallback(k)

SpecIntro == InitIntro /\ [][NextIntro]_vars

\* Under SpecDeepLink the page is opened with any of the hashes and used as under
\* SpecPortal, with at most MaxLinkInputs clicks; time passes in steps of TimeStep,
\* and the renders caused by useCorruption's interval, which only delay the intro
\* and add deep-link timeouts, are left out.
InitDeepLink ==
    /\ helixItems = baseItems
    /\ HelixIdle
    /\ rngState = 0
    /\ emitterCount = particleCount
    /\ ParticlesIdle
    /\ PortalIdle
    /\ ScreenMounted
    /\ inputs = MaxLinkInputs
    /\ HumIdle

NextDeepLink ==
    \/ NextPortal
    \/ \E i \in DOMAIN introTimers : introTimeout(i)
    \/ \E left \in linkTimers : deepLinkCallback(left)

SpecDeepLink == InitDeepLink /\ [][NextDeepLink]_vars

InitQuiet ==
    /\ helixItems = baseItems
    /\ HelixIdle
    /\ rngState = 0
    /\ emitterCount = particleCount
    /\ ParticlesIdle
    /\ PortalIdle
    /\ ScreenMounted
    /\ inputs = 0
    /\ HumIdle

NextQuiet ==
    \/ elapsePeriod
    \/ \E i \in DOMAIN introTimers : introTimeout(i)
    \/ \E left \in linkTimers : deepLinkCallback(left)

\* timers are fair: time passes, and a timeout that is due runs
SpecQuiet == InitQuiet /\ [][NextQuiet]_vars /\ WF_vars(NextQuiet)

(***************************************************************************)
(* The void hum of useNervousSystem.  Under SpecHum toggleVoidHum is       *)
(* called with true and false in any order while its stop timeouts run;    *)
(* PortalScreen calls it with true from its click listeners and with false *)
(* from the cleanup of its hum effect, which runs at every render.         *)
(***************************************************************************)
\* the delay of the stop timeout of toggleVoidHum(false), in ms
humStopDelay == 1000

\* a pending stop timeout; tracked is the oscillator humOscillatorRef held when
\* toggleVoidHum(false) set it
HumStop(tracked, left) == [tracked |-> tracked, left |-> left]

\* ctx.createOscillator(): the oscillators not created yet
FreeOscillators == {id \in DOMAIN oscillators : oscillators[id] = "none"}

\* toggleVoidHum(playing): with playing and no tracked oscillator it creates,
\* starts and tracks one; without playing and with a tracked oscillator it sets
\* the stop timeout; otherwise it does nothing
toggleVoidHum(playing) ==
    /\ IF playing /\ humOscillator = 0
       THEN /\ \E id \in FreeOscillators :
                  /\ \A other \in FreeOscillators : id <= other
                  /\ oscillators' = [oscillators EXCEPT ![id] = "playing"]
                  /\ humOscillator' = id
            /\ UNCHANGED humStops
       ELSE IF ~playing /\ humOscillator # 0
       THEN /\ Len(humStops) < MaxHumStops
            /\ humStops' = Append(humStops, HumStop(humOscillator, humStopDelay))
            /\ UNCHANGED <<humOscillator, oscillators>>
       ELSE UNCHANGED humVars
    /\ lastEvent' = Event("toggleVoidHum", NoIndex, << <<"playing", playing>> >>)
    /\ UNCHANGED <<helixVars, particleVars, screenVars, activeDimension,
                   selectedRealityId, isTransitioning, warpPhase, isScanning, clickedIndex,
                   timers, exitProgress, pressTimer, intervals, envCalls, lastSwitch>>

\* the callback of stop timeout k: humOscillatorRef.current?.stop() and
\* humOscillatorRef.current = null, on whatever the ref holds when it runs
humStopCallback(k) ==
    /\ humStops[k].left <= 0 /\ Earliest(humStops[k].left)
    /\ \A j \in DOMAIN humStops : j < k => humStops[j].left > humStops[k].left
    /\ oscillators' = IF humOscillator = 0 THEN oscillators
                      ELSE [oscillators EXCEPT ![humOscillator] = "stopped"]
    /\ humOscillator' = 0
    /\ humStops' = Remove(humStops, k)
    /\ lastEvent' = Event("humStop", humStops[k].tracked,
                          IF humOscillator = 0 THEN <<>>
                          ELSE << <<"stop", humOscillator>> >>)
    /\ UNCHANGED <<helixVars, particleVars, screenVars, activeDimension,
                   selectedRealityId, isTransitioning, warpPhase, isScanning, clickedIndex,
                   timers, exitProgress, pressTimer, intervals, envCalls, lastSwitch>>

NextHum ==
    \/ \E playing \in BOOLEAN : toggleVoidHum(playing)
    \/ \E k \in DOMAIN humStops : humStopCallback(k)
    \/ Elapse

SpecHum == InitPortal /\ [][NextHum]_vars

(***************************************************************************)
(* Properties of the particle emitters, checked under SpecParticles.       *)
(***************************************************************************)
Renders == {r \in {takingOver, prevTakingOver} : r.rendered}

\* two renders of the take-over emitter with the same arguments and the same seed
SameSeededCall(a, b) ==
    /\ a.rendered /\ b.rendered
    /\ a.count = b.count /\ a.color = b.color /\ a.speed = b.speed /\ a.shape = b.shape
    /\ a.seed = b.seed

\* a trajectory without its horizontal end offset
WithoutTx(particle) ==
    [key |-> particle.key,
     style |-> [f \in (DOMAIN particle.style) \ {"tx"} |-> particle.style[f]]]

\* the base draw of the duration of particle k (counted from 1) in a render: its third draw
BaseDraw(render, k) == RandValue(RandAfter(render.seed, TakingOverDraws * (k - 1) + 2))

\* C8: an emitter asked for count particles produces exactly count trajectories,
\* for count in {0, 1, 40, 60}, and the empty sequence for count 0; the take-over
\* emitter asks for 40 and the hover emitter for 60.
C8_CountTrajectories ==
    /\ particleCount = 40
    /\ hoverCount = 60
    /\ emitterCount \in {0, 1, 40, 60}
    /\ \A r \in Renders :
          /\ Len(r.out) = emitterCount
          /\ (emitterCount = 0 => r.out = <<>>)
          /\ \A k \in 1..Len(r.out) : r.out[k].key = k - 1
    /\ hoverCalls > 0 =>
          /\ Len(hoverElements) = emitterCount
          /\ (emitterCount = 0 => hoverElements = <<>>)
          /\ \A k \in 1..Len(hoverElements) : hoverElements[k].key = k - 1

C8_Witness ==
    /\ takingOver.rendered
    /\ emitterCount = 40
    /\ Len(takingOver.out) = 40
    /\ hoverCalls > 0
    /\ Len(hoverElements) = 40

\* the multipliers of C9, in tenths: fast 0.2, slow 3.0, anything else 1.0
C9_Multipliers ==
    /\ getDurationMultiplier("fast") = 2
    /\ getDurationMultiplier("slow") = 30
    /\ \A speed \in {"normal", "turbo", "Fast", ""} : getDurationMultiplier(speed) = 10
    /\ \A r \in Renders : \A k \in 1..Len(r.out) :
          LET base == 2 * FP + 3 * BaseDraw(r, k)
              duration == r.out[k].style.animation.duration
          IN  /\ r.speed = "fast" => duration = (base * 2) \div 10
              /\ r.speed = "slow" => duration = (base * 30) \div 10
              /\ r.speed \notin {"fast", "slow"} => duration = (base * 10) \div 10

\* a fast and a slow render of the take-over emitter from the same seed (so with
\* the same base draws)
FastAndSlow ==
    /\ takingOver.rendered /\ prevTakingOver.rendered
    /\ takingOver.seed = prevTakingOver.seed
    /\ takingOver.speed = "fast" /\ prevTakingOver.speed = "slow"

C10_SeededIdentical ==
    SameSeededCall(prevTakingOver, takingOver) => prevTakingOver.out = takingOver.out

\* C10 as amended: with a seeded random source, two calls with the same arguments
\* agree on every field of every trajectory except the horizontal end offset (which
\* carries the wind drift read from the clock), and are identical when the clock
\* reads the same value in both calls.
C10_SeededIdenticalUpToWind ==
    SameSeededCall(prevTakingOver, takingOver) =>
        /\ Len(prevTakingOver.out) = Len(takingOver.out)
        /\ \A k \in 1..Len(takingOver.out) :
              WithoutTx(prevTakingOver.out[k]) = WithoutTx(takingOver.out[k])
        /\ (prevTakingOver.now = takingOver.now => prevTakingOver.out = takingOver.out)

C10_Witness ==
    /\ SameSeededCall(prevTakingOver, takingOver)
    /\ emitterCount = 40
    /\ prevTakingOver.now # takingOver.now
    /\ prevTakingOver.out # takingOver.out
    /\ prevTakingOver.out[1].style.ty = takingOver.out[1].style.ty

\* C11: the trajectories of mounted take-over particles are generated once per
\* activation: while the emitter stays mounted no step generates them again (no
\* re-render of the owner does, a corruption tick included).
C11_GeneratedOncePerActivation ==
    [][(takingOverMounted /\ takingOverMounted')
          => (particleCalls' = particleCalls /\ takingOver'.out = takingOver.out)]_vars

\* C12: the style applied to a rendered particle is a lookup on its shape: circle
\* gives round corners, square unrounded corners, diamond unrounded corners and a
\* rotation by 45 degrees, star unrounded corners and the 10-point polygon outline.
C12_ShapeStyleApplied ==
    \A r \in Renders : \A k \in 1..Len(r.out) :
        LET style == r.out[k].style
        IN  /\ r.shape = "circle" => style.borderRadius = "50%"
            /\ r.shape = "square" => style.borderRadius = "0"
            /\ r.shape = "diamond" =>
                  style.borderRadius = "0" /\ style.transform = "rotate(45deg)"
            /\ r.shape = "star" =>
                  /\ style.borderRadius = "0"
                  /\ "clipPath" \in DOMAIN style
                  /\ style.clipPath = "polygon(10 points)"

\* the identifiers the hover emitter is tried on: the ids of the vault's base items
HoverIds == {baseItems[k].id : k \in DOMAIN baseItems}

\* the profile (the name of the animation) the hover emitter chooses for an identifier
HoverProfile(realityId) ==
    HoverBranch(Draws(0, 1, HoverDraws(realityId)), 0, realityId).animation.name

DedicatedIds == {id \in HoverIds : HoverProfile(id) # "magical-flow"}

\* every element of the last hover render has the profile of the render's identifier
HoverProfileApplied ==
    \A k \in 1..Len(hoverElements) :
        hoverElements[k].style.animation.name = HoverProfile(hoverRealityId)

\* C13 as stated: the hover emitter chooses its profile by the reality identifier:
\* exactly three identifiers have a dedicated profile, every other one gets the
\* default "magical flow" profile.
C13_ThreeDedicated ==
    hoverCalls > 0 =>
        /\ HoverProfileApplied
        /\ Cardinality(DedicatedIds) = 3
        /\ hoverRealityId \notin DedicatedIds => HoverProfile(hoverRealityId) = "magical-flow"

\* C13 as amended: exactly two identifiers, dragon and cosmic, have a dedicated
\* profile (spark-rise and atmosphere-leak); every other identifier gets the
\* default "magical flow" profile.
C13_TwoDedicated ==
    hoverCalls > 0 =>
        /\ HoverProfileApplied
        /\ DedicatedIds = {<<"dragon">>, <<"cosmic">>}
        /\ \A k \in 1..Len(hoverElements) :
              LET name == hoverElements[k].style.animation.name
              IN  /\ hoverRealityId = <<"dragon">> => name = "spark-rise"
                  /\ hoverRealityId = <<"cosmic">> => name = "atmosphere-leak"
                  /\ hoverRealityId \notin {<<"dragon">>, <<"cosmic">>} => name = "magical-flow"

C13_Witness ==
    /\ hoverCalls = 2
    /\ hoverRealityId = <<"neon">>
    /\ emitterCount = hoverCount
    /\ hoverElements[hoverCount].style.animation.name = "magical-flow"
    /\ <<"--leak-tx", 0>> \in DOMAIN rootStyle

\* C14: a generator invocation writes no shared mutable state: no step overwrites
\* a value that an earlier invocation has stored for its particles to read.
C14_NoSharedStateOverwritten ==
    [][\A name \in DOMAIN rootStyle :
          name \in DOMAIN rootStyle' /\ rootStyle'[name] = rootStyle[name]]_vars

(***************************************************************************)
(* Properties of PortalScreen, OrbitalHud and ImmersivePlayer, checked     *)
(* under SpecPortal and SpecPlayer.                                        *)
(***************************************************************************)
KindCount(pending, kind) == Cardinality({k \in DOMAIN pending : pending[k].kind = kind})

\* the pending timeouts of handleSwitchMode, handleCapture and handleWarp, in the
\* order of their scheduling, without their remaining times
Scheduled(pending) ==
    LET chosen == SelectSeq(pending, LAMBDA t : t.kind \in {"switch", "capture", "warp"})
    IN  [k \in DOMAIN chosen |-> <<chosen[k].kind, chosen[k].arg>>]

\* the step has run the callback of the pending timeout t
CallbackEffect(t) ==
    /\ t.kind = "switch" => activeDimension' = t.arg /\ isTransitioning' = FALSE
    /\ t.kind = "capture" => isScanning' = FALSE
    /\ t.kind = "warp" => warpPhase' = "warped"

\* the step keeps every scheduled timeout pending
TimeoutsKept ==
    /\ Len(Scheduled(timers')) >= Len(Scheduled(timers))
    /\ SubSeq(Scheduled(timers'), 1, Len(Scheduled(timers))) = Scheduled(timers)

\* the step takes one scheduled timeout away, the one that is due first, and runs
\* its callback
TimeoutRan ==
    \E k \in DOMAIN timers :
        /\ timers[k].kind \in {"switch", "capture", "warp"}
        /\ FirstDue(k)
        /\ Scheduled(timers') = Scheduled(Remove(timers, k))
        /\ CallbackEffect(timers[k])

\* the pending mode switches are due in the order of their requests
SwitchesInOrder ==
    \A j, k \in DOMAIN timers :
        (j < k /\ timers[j].kind = "switch" /\ timers[k].kind = "switch")
            => timers[j].left <= timers[k].left

C16_IntensityInRange ==
    /\ \A k \in DOMAIN envCalls : envCalls[k] >= 0 /\ envCalls[k] <= FP
    /\ exitProgress >= 0 /\ exitProgress <= exitFull

\* the step is a HUD click that has called onSwitchMode(i)
SwitchRequested(i) ==
    /\ lastEvent'.handler = "handleClick"
    /\ lastEvent'.calls = << <<"onSwitchMode", i>> >>

\* C17: handleSwitchMode(index) with index = activeDimension changes no state of
\* PortalScreen and schedules nothing; with another index it sets isTransitioning
\* at once, leaves activeDimension as it is and schedules a callback 500 ms
\* later; activeDimension changes only when such a callback runs, and the callback
\* sets activeDimension to its index and isTransitioning to false.
C17_SwitchModeSteps ==
    [][/\ \A i \in 0..2 :
             SwitchRequested(i) =>
                 IF i = activeDimension
                 THEN /\ UNCHANGED <<activeDimension, selectedRealityId, isTransitioning,
                                     warpPhase, isScanning, lastSwitch>>
                      /\ Scheduled(timers') = Scheduled(timers)
                      /\ Len(timers') = Len(timers) + 1
                 ELSE /\ isTransitioning' = TRUE
                      /\ activeDimension' = activeDimension
                      /\ Len(timers') = Len(timers) + 2
                      /\ timers'[Len(timers')] = Timer("switch", i, switchDelay)
       /\ activeDimension' # activeDimension =>
             \E k \in DOMAIN timers :
                 /\ timers[k].kind = "switch" /\ FirstDue(k)
                 /\ activeDimension' = timers[k].arg
       /\ (lastEvent'.handler = "timeout" /\ lastEvent'.calls[1][1] = "switch") =>
             /\ activeDimension' = lastEvent'.calls[1][2]
             /\ isTransitioning' = FALSE]_vars

C17_Witness ==
    /\ lastEvent = Event("handleClick", 0, << <<"onSwitchMode", 0>> >>)
    /\ activeDimension = 0
    /\ lastSwitch = 0
    /\ ~isTransitioning
    /\ KindCount(timers, "switch") = 0

\* C18: isTransitioning is true exactly when a mode-switch callback is pending; in
\* particular no dimension is shown as active (activeDimension with isTransitioning
\* false) while a switch to another dimension is scheduled.
C18_TransitioningIffPending ==
    /\ isTransitioning <=> KindCount(timers, "switch") > 0
    /\ \A k \in DOMAIN timers :
          (timers[k].kind = "switch" /\ timers[k].arg # activeDimension) => isTransitioning

\* C19: a HUD click on the scanner button (index 1) while the current mode is 1
\* triggers a capture and no mode switch; every other HUD click requests a mode
\* switch to the clicked index and triggers no capture.
C19_HudClick ==
    [][\A i \in 0..2 :
          (lastEvent'.handler = "handleClick" /\ lastEvent'.index = i) =>
              /\ clickedIndex' = i
              /\ IF activeDimension = 1 /\ i = 1
                 THEN /\ lastEvent'.calls = << <<"onCapture", NoIndex>> >>
                      /\ isScanning' = TRUE
                      /\ KindCount(timers', "capture") = 1
                      /\ ~isScanning =>
                            timers'[Len(timers')] = Timer("capture", NoIndex, captureDelay)
                      /\ KindCount(timers', "switch") = KindCount(timers, "switch")
                      /\ UNCHANGED <<activeDimension, isTransitioning, lastSwitch>>
                 ELSE /\ lastEvent'.calls = << <<"onSwitchMode", i>> >>
                      /\ i # activeDimension =>
                            /\ timers'[Len(timers')] = Timer("switch", i, switchDelay)
                            /\ isTransitioning' = TRUE
                            /\ lastSwitch' = i
                      /\ i = activeDimension =>
                            KindCount(timers', "switch") = KindCount(timers, "switch")
                      /\ isScanning' = isScanning
                      /\ KindCount(timers', "capture") = KindCount(timers, "capture")]_vars

C19_Witness ==
    /\ lastEvent = Event("handleClick", 1, << <<"onCapture", NoIndex>> >>)
    /\ activeDimension = 1
    /\ isScanning
    /\ KindCount(timers, "capture") = 1
    /\ KindCount(timers, "switch") = 0

\* at most one capture callback is pending, one is pending exactly while isScanning
\* is true, and it is due within 2000 ms
CaptureTracked ==
    /\ KindCount(timers, "capture") <= 1
    /\ isScanning <=> KindCount(timers, "capture") = 1
    /\ \A k \in DOMAIN timers : timers[k].kind = "capture" => timers[k].left <= captureDelay

\* C20: handleCapture while isScanning is true is a no-op, so at most one capture
\* callback is pending at any time; a capture that has started keeps its callback
\* pending, due 2000 ms after the start, whatever dimension is shown, and
\* isScanning becomes false when, and only when, that callback runs.
C20_CaptureOnce ==
    [][/\ CaptureTracked'
       /\ (isScanning /\ lastEvent'.calls = << <<"onCapture", NoIndex>> >>) =>
             /\ isScanning' = TRUE
             /\ Scheduled(timers') = Scheduled(timers)
       /\ (isScanning /\ ~isScanning') =>
             \E k \in DOMAIN timers : timers[k].kind = "capture" /\ FirstDue(k)
       /\ KindCount(timers', "capture") < KindCount(timers, "capture") => ~isScanning'
       /\ (isScanning /\ isScanning') =>
             \A j \in DOMAIN timers, k \in DOMAIN timers' :
                 (timers[j].kind = "capture" /\ timers'[k].kind = "capture")
                     => timers'[k].left <= timers[j].left]_vars

C20_Witness ==
    /\ isScanning
    /\ activeDimension = 2
    /\ ~isTransitioning
    /\ \E k \in DOMAIN timers : timers[k].kind = "capture" /\ timers[k].left < captureDelay

(***************************************************************************)
(* Properties of the warp and of the exit ritual, checked under SpecPlayer. *)
(***************************************************************************)
\* the step is a call of onExit by the player that is mounted
PlayerExit ==
    /\ warpPhase = "warped"
    /\ lastEvent'.handler \in {"onExit", "exitTick"}

\* C21: handleWarp is a no-op unless warpPhase is 'idle'; from idle it sets
\* 'accelerating' and schedules the callback that sets 'warped'; at most one warp
\* callback is pending at a time, warpPhase never goes from 'accelerating' back to
\* 'idle', and 'idle' is re-entered only from 'warped' through the immersive
\* player's onExit.
C21_WarpPhaseSteps ==
    [][/\ lastEvent'.handler = "onWarp" =>
             IF warpPhase = "idle"
             THEN /\ warpPhase' = "accelerating"
                  /\ timers' = Append(timers, Timer("warp", NoIndex, warpDelay))
             ELSE UNCHANGED <<warpPhase, timers>>
       /\ (lastEvent'.handler = "timeout" /\ lastEvent'.calls[1][1] = "warp")
             => warpPhase' = "warped"
       /\ KindCount(timers', "warp") <= 1
       /\ ~(warpPhase = "accelerating" /\ warpPhase' = "idle")
       /\ (warpPhase # "idle" /\ warpPhase' = "idle") => PlayerExit]_vars

(***************************************************************************)
(* Properties of the vault's clicks, checked under SpecPortal.             *)
(***************************************************************************)
RealityIds == {realities[k].id : k \in DOMAIN realities}

DupSuffixes == {<<>>, <<"-dup">>, <<"-dup", "2">>, <<"-dup", "3">>}

\* C22: a click on a locked vault item (id starting with 'locked') changes neither
\* selectedRealityId nor the pending mode switches; a click on an unlocked item
\* sets selectedRealityId to the item's id without its '-dup', '-dup2' or '-dup3'
\* suffix and requests a switch to the gateway (dimension 0).
C22_VaultClick ==
    [][lastEvent'.handler = "vaultClick" =>
          LET id == baseItems[lastEvent'.index].id
          IN  IF id[1] = "locked"
              THEN /\ UNCHANGED <<selectedRealityId, timers, isTransitioning, lastSwitch>>
                   /\ lastEvent'.calls = <<>>
              ELSE /\ selectedRealityId' \in RealityIds
                   /\ \E suffix \in DupSuffixes : selectedRealityId' \o suffix = id
                   /\ isTransitioning'
                   /\ timers' = Append(timers, Timer("switch", 0, switchDelay))
                   /\ lastSwitch' = 0]_vars

C22_Witness ==
    /\ lastEvent.handler = "vaultClick"
    /\ baseItems[lastEvent.index].id = <<"forest", "-dup", "3">>
    /\ selectedRealityId = <<"forest">>
    /\ isTransitioning
    /\ KindCount(timers, "switch") = 1

(***************************************************************************)
(* Properties of a page opened with a deep link, checked under             *)
(* SpecDeepLink.                                                           *)
(***************************************************************************)
\* C23: in every reachable state selectedRealityId is the id of one of the four
\* realities (dragon, cosmic, neon, forest), after any vault clicks and deep-link
\* openings, so currentReality never falls back to the default entry.
C23_SelectedIsReality == selectedRealityId \in RealityIds

\* a deep link has selected a reality other than the initial one
C23_Witness ==
    /\ LinkTarget(hash).matched
    /\ lastEvent.handler = "timeout"
    /\ lastEvent.calls = << <<"deepLink", NoIndex>> >>
    /\ selectedRealityId = <<"neon">>
    /\ selectedRealityId # realities[1].id

\* the step is the callback of a deep-link timeout
DeepLinkStep ==
    /\ lastEvent'.handler = "timeout"
    /\ lastEvent'.calls = << <<"deepLink", NoIndex>> >>

\* C24: deep-link handling changes no state and schedules no timer when the hash
\* does not contain 'open', carries no id parameter or carries an id that matches
\* no reality; only a matching id leads, 1500 ms later, to selectedRealityId =
\* that id, introComplete = true, warpPhase = 'warped' and isProcessingFile = false.
C24_DeepLink ==
    [][/\ ~LinkTarget(hash).matched =>
             /\ ~isProcessingFile' /\ linkTimers' = {}
             /\ ~DeepLinkStep
       /\ DeepLinkStep =>
             /\ LinkTarget(hash).matched
             /\ selectedRealityId' = LinkTarget(hash).id
             /\ introComplete'
             /\ warpPhase' = "warped"
             /\ ~isProcessingFile']_vars

\* the gateway is shown after the intro; with a matching hash the intro is
\* completed by the first deep-link callback, which also sets 'warped', so that
\* warpPhase is 'idle' here only after the player's onExit
IdleAfterIntro == introComplete /\ warpPhase = "idle"

\* C25: after the immersive player's onExit has returned warpPhase to 'idle',
\* warpPhase stays 'idle' until the user next invokes handleWarp: no effect re-run
\* and no stale or re-armed timer (deep-link handling included) puts the app back
\* into 'warped' without a new click on the portal card.
C25_IdleUntilWarp ==
    [][(IdleAfterIntro /\ warpPhase' # "idle") => lastEvent'.handler = "onWarp"]_vars

(***************************************************************************)
(* Properties of the exit ritual, checked under SpecPlayer.                *)
(***************************************************************************)
\* the step calls onExit
CallsOnExit == \E c \in DOMAIN lastEvent'.calls : lastEvent'.calls[c][1] = "onExit"

\* C26: in the immersive player onExit is called only when exitProgress has risen
\* to 100 by ticks of 2; after any cancelExit (release) exitProgress is 0 and
\* stays 0, and onExit is not called, until the next startExit, for every
\* sequence of startExit and cancelExit, two startExit calls with no cancelExit
\* between them included.
C26_ExitRitual ==
    [][/\ (warpPhase = "warped" /\ CallsOnExit) =>
             /\ exitProgress = exitFull - exitIncrement
             /\ exitProgress' = exitFull
       /\ (warpPhase = "warped" /\ lastEvent.handler = "cancelExit") =>
             \/ lastEvent'.handler = "startExit"
             \/ exitProgress' = 0 /\ ~CallsOnExit]_vars

(***************************************************************************)
(* Properties of the intro and of the corruption, checked under SpecIntro  *)
(* and SpecQuiet.                                                          *)
(***************************************************************************)
\* C27: while CinematicIntro is mounted its step only moves forward through 0, 1,
\* 2, 3, 4 and never decreases, and onComplete is called at most once, whatever
\* re-renders of PortalScreen (corruption ticks, HUD clicks) happen meanwhile.
C27_IntroForward ==
    [][/\ ~introComplete => step' \in {step, step + 1}
       /\ onCompleteCalls' <= 1]_vars

\* C28: under fair timers and with no user input the intro always eventually
\* completes: introComplete eventually becomes true and the intro overlay is
\* removed, even though the corruption interval re-renders PortalScreen every
\* 50 ms while the gateway is idle.
C28_IntroCompletes == <>introComplete

\* the intro has run to its end after the corruption's renders have stopped
C28_Witness ==
    /\ ~LinkTarget(hash).matched
    /\ inputs = 0
    /\ corruption = One
    /\ introComplete /\ step = Len(introDelays) /\ onCompleteCalls = 1
    /\ introTimers = IntroCleared

\* the step is a tick of useCorruption's interval with the gateway idle before
\* and after it
IdleTick == lastEvent'.handler = "elapsePeriod" /\ GatewayIdle /\ GatewayIdle'

\* C29: corruption stays within [0, 1] in every reachable state: it is reset to 0
\* whenever the gateway is not idle, grows by 0.005 per 50 ms tick and never
\* decreases while the gateway stays idle, and stays at 1 once it has reached 1.
C29_CorruptionRange ==
    [][/\ DoubleGeq(corruption', Zero) /\ DoubleGeq(One, corruption')
       /\ ~GatewayIdle' => corruption' = Zero
       /\ IdleTick => DoubleGeq(corruption', corruption)
       /\ (IdleTick /\ corruption = One) => corruption' = One]_vars

(***************************************************************************)
(* Properties of the void hum, checked under SpecHum.                      *)
(***************************************************************************)
\* C30: within one useNervousSystem instance at most one hum oscillator is tracked
\* at a time, and the delayed stop scheduled by toggleVoidHum(false) only ever
\* stops the oscillator that was playing when it was scheduled: an oscillator
\* created after a stop was requested is never stopped by that earlier request,
\* so after a final toggleVoidHum(true) that created an oscillator the hum keeps
\* playing.
C30_StopOnlyTracked ==
    [][/\ \A id \in DOMAIN oscillators :
             oscillators'[id] = "playing" => humOscillator' = id
       /\ lastEvent'.handler = "humStop" =>
             \A id \in DOMAIN oscillators :
                (oscillators[id] = "playing" /\ oscillators'[id] = "stopped")
                   => id = lastEvent'.index]_vars

====
